---- MODULE Spec2Model ----
(***************************************************************************)
(* Model of IFrameEthereumProvider (src/src/index.ts, lines 1-323): the    *)
(* pending-call table `completers`, the call issuer execute/send/sendAsync,*)
(* the timeout callback armed by execute, and the inbound message handler  *)
(* handleParentWindowMessage with its event dispatch.                      *)
(*                                                                         *)
(* One action is one event-loop callback run to completion, including the  *)
(* promise continuations (microtasks) it triggers.                         *)
(***************************************************************************)
EXTENDS Integers, Sequences, FiniteSets, TLC

VARIABLES
  embedded,             \* result of isEmbeddedInIFrame() for this window
  timeoutMilliseconds,  \* this.timeoutMilliseconds
  completers,           \* this.completers: key string -> index of the call owning the completer
  calls,                \* every call issued so far, in order of issue
  sent,                 \* what window.parent.postMessage received, in order
  listeners,            \* the EventEmitter registry: event name -> sequence of listeners
  invoked,              \* listener invocations made by the step just taken
  threw                 \* whether the step just taken was a message handler run that threw

vars == <<embedded, timeoutMilliseconds, completers, calls, sent,
          listeners, invoked, threw>>

----------------------------------------------------------------------------
(* Bounds *)

MaxCalls == 2      \* calls issued in one behaviour
MaxId == 2         \* getUniqueId draws from MaxId distinct numbers
MaxListeners == 2  \* listeners registered at one time

----------------------------------------------------------------------------
(* Program constants *)

DEFAULT_TARGET_ORIGIN == "*"
DEFAULT_TIMEOUT_MILLISECONDS == 60000
JSON_RPC_VERSION == "2.0"

----------------------------------------------------------------------------
(* Values *)

Undefined == "<undefined>"          \* a field that reads as undefined
Null == [t |-> "null"]              \* the null handed to a callback

DigitStr == <<"0", "1", "2", "3", "4", "5", "6", "7", "8", "9">>

RECURSIVE NumToStr(_)
\* '' + n for a non-negative integer n
NumToStr(n) ==
  IF n < 10 THEN DigitStr[n + 1]
  ELSE NumToStr(n \div 10) \o DigitStr[(n % 10) + 1]

\* the values getUniqueId can return
UniqueIds == {NumToStr(n) : n \in 0 .. MaxId - 1}

\* property names every object inherits from Object.prototype
PrototypeKeys == {"constructor"}

\* '' + message.id, which is also the property key of completers[message.id]
KeyOf(id) ==
  CASE id.t = "number" -> NumToStr(id.n)
    [] id.t = "string" -> id.s
    [] id.t = "null" -> "null"
    [] OTHER -> "undefined"

Methods == {"eth_sign"}
ParamsSet == {<<"hello", "world">>}

Results == {"0x0", "0x0000"}

\* the `error` member of a response
JsonRpcError ==
  { [code |-> -32000, reason |-> "Unauthorized", message |-> Undefined, data |-> Undefined],
    [code |-> 10000, reason |-> Undefined, message |-> "abc", data |-> "details"] }

NoError == [code |-> 0, reason |-> Undefined, message |-> Undefined, data |-> Undefined]

EventNames == {"notification", "connect", "close", "chainChanged",
               "networkChanged", "accountsChanged"}

InboundMethods == EventNames \cup {"eth_subscription"}

\* JSON values carried by notifications
Str(s) == [k |-> "string", s |-> s]
Arr(a) == [k |-> "array", a |-> a]
Undef == [k |-> "undefined"]

\* the params of an inbound notification
NotificationParams == {<<Arr(<<"0xabc">>), Str("0x1")>>}

Message(data, jsonrpc, id, hasResult, result, hasError, error, hasMethod, method, hasParams, params) ==
  [data |-> data, jsonrpc |-> jsonrpc, id |-> id,
   hasResult |-> hasResult, result |-> result,
   hasError |-> hasError, error |-> error,
   hasMethod |-> hasMethod, method |-> method,
   hasParams |-> hasParams, params |-> params]

\* the forms in which a response can carry the identifier n
IdForms(n) ==
  IF n = 0 THEN {[t |-> "number", n |-> 0], [t |-> "string", s |-> NumToStr(0)]}
  ELSE IF n < MaxId THEN {[t |-> "string", s |-> NumToStr(n)]}
  ELSE {[t |-> "number", n |-> n]}

\* identifiers of responses: those of calls, one foreign number, an inherited property name
ResponseIds ==
  UNION {IdForms(n) : n \in 0 .. MaxId} \cup {[t |-> "string", s |-> k] : k \in PrototypeKeys}

NoId == [t |-> "undefined"]
NullId == [t |-> "null"]

\* event.data that is falsy, a truthy primitive, or of another protocol version
ForeignMessages ==
  { Message("absent", Undefined, NoId, FALSE, Undefined, FALSE, NoError, FALSE, Undefined, FALSE, <<>>),
    Message("primitive", Undefined, NoId, FALSE, Undefined, FALSE, NoError, FALSE, Undefined, FALSE, <<>>) }
  \cup
  { Message("object", v, id, TRUE, "0x0", FALSE, NoError, TRUE, "accountsChanged", TRUE, <<Arr(<<"0xabc">>)>>) :
      v \in {Undefined, "1.0"}, id \in IdForms(0) }

\* messages of version 2.0 without a method: responses, well formed or not
ResponseMessages ==
  { Message("object", JSON_RPC_VERSION, id, FALSE, Undefined, FALSE, NoError, FALSE, Undefined, FALSE, <<>>) :
      id \in ResponseIds \cup {NoId, NullId} }
  \cup
  { Message("object", JSON_RPC_VERSION, id, TRUE, r, FALSE, NoError, FALSE, Undefined, FALSE, <<>>) :
      id \in {[t |-> "string", s |-> s] : s \in UniqueIds}, r \in Results }
  \cup
  { Message("object", JSON_RPC_VERSION, id, TRUE, "0x0", FALSE, NoError, FALSE, Undefined, FALSE, <<>>) :
      id \in (ResponseIds \ {[t |-> "string", s |-> s] : s \in UniqueIds}) \cup {NoId, NullId} }
  \cup
  { Message("object", JSON_RPC_VERSION, id, FALSE, Undefined, TRUE, e, FALSE, Undefined, FALSE, <<>>) :
      id \in ResponseIds \ {[t |-> "number", n |-> 0]}, e \in JsonRpcError }
  \cup
  { Message("object", JSON_RPC_VERSION, id, TRUE, "0x0", TRUE, e, FALSE, Undefined, FALSE, <<>>) :
      id \in {[t |-> "string", s |-> s] : s \in UniqueIds},
      e \in {[code |-> -32000, reason |-> "Unauthorized", message |-> Undefined, data |-> Undefined]} }

\* messages of version 2.0 with a method: notifications, and one response that names a method
NotificationMessages ==
  { Message("object", JSON_RPC_VERSION, id, FALSE, Undefined, FALSE, NoError, TRUE, m, hp,
            IF hp THEN p ELSE <<>>) :
      id \in {NoId, [t |-> "number", n |-> 0]},
      m \in InboundMethods, hp \in BOOLEAN, p \in NotificationParams }
  \cup
  { Message("object", JSON_RPC_VERSION, id, FALSE, Undefined, FALSE, NoError, TRUE, "accountsChanged", TRUE, p) :
      id \in {NullId, [t |-> "number", n |-> MaxId]}, p \in NotificationParams }
  \cup
  { Message("object", JSON_RPC_VERSION, [t |-> "string", s |-> NumToStr(0)], TRUE, "0x0", FALSE, NoError,
            TRUE, "accountsChanged", TRUE, p) : p \in NotificationParams }

\* everything the transport can surface as event.data
Messages == ForeignMessages \cup ResponseMessages \cup NotificationMessages

----------------------------------------------------------------------------
(* Errors and outcomes *)

NotEmbeddedError == [name |-> "Error", text |-> "Not embedded within an iframe."]

\* new Error(`RPC ID "${id}" timed out after ${ms} milliseconds`)
TimeoutError(id, ms) == [name |-> "Error", text |-> "timed out", id |-> id, ms |-> ms]

\* new RpcError(code, reason)
RpcError(code, reason) == [name |-> "RpcError", code |-> code, reason |-> reason]

Pending == [t |-> "pending"]

----------------------------------------------------------------------------
(* The promise behind a call and the caller's continuation *)

\* send, had it read error.message where the code reads error.reason
SendContinuationReadsMessage(m) ==
  IF m.hasError
    THEN [t |-> "throw", e |-> RpcError(m.error.code, m.error.message)]
    ELSE [t |-> "return", v |-> IF m.hasResult THEN m.result ELSE Undefined]

\* send, after `await this.execute(...)` fulfilled with response m
SendContinuation(m) ==
  IF m.hasError
    THEN [t |-> "throw", e |-> RpcError(m.error.code, m.error.reason)]
    ELSE [t |-> "return", v |-> IF m.hasResult THEN m.result ELSE Undefined]

\* a caller that is handed the result of a response that also carries an error
AfterFulfilledPrefersResult(api, m) ==
  IF api = "send"
    THEN IF m.hasResult THEN [t |-> "return", v |-> m.result] ELSE SendContinuation(m)
    ELSE [t |-> "callback", error |-> Null, result |-> m]

\* what the caller observes once the promise of execute fulfils with m
AfterFulfilled(api, m) ==
  IF api = "send" THEN SendContinuation(m)
  ELSE [t |-> "callback", error |-> Null, result |-> m]

\* what the caller observes once the promise of execute rejects with e
AfterRejected(api, e) ==
  IF api = "send" THEN [t |-> "throw", e |-> e]
  ELSE [t |-> "callback", error |-> e, result |-> Null]

\* what a throwing callback throws
CallbackError == [name |-> "Error", text |-> "thrown by the callback"]

\* sendAsync after the promise of execute fulfils with m: callback(null, m) runs inside
\* the try block, so what it throws is caught and handed to callback(error, null)
CallbacksAfterFulfilled(api, callback, m) ==
  IF api = "send" THEN <<>>
  ELSE IF callback = "throws"
    THEN <<[error |-> Null, result |-> m], [error |-> CallbackError, result |-> Null]>>
    ELSE <<[error |-> Null, result |-> m]>>

\* sendAsync after the promise of execute rejects with e: callback(e, null) in the catch block
CallbacksAfterRejected(api, callback, e) ==
  IF api = "send" THEN <<>> ELSE <<[error |-> e, result |-> Null]>>

\* completer.resolve(m): settles the promise if it is still pending
Resolve(call, m) ==
  [call EXCEPT !.resolved = @ + 1,
               !.promise = IF call.promise = Pending THEN [t |-> "fulfilled", value |-> m] ELSE @,
               !.outcome = IF call.promise = Pending THEN AfterFulfilled(call.api, m) ELSE @,
               !.callbacks = IF call.promise = Pending
                               THEN CallbacksAfterFulfilled(call.api, call.callback, m) ELSE @]

\* completer.reject(e): settles the promise if it is still pending
Reject(call, e) ==
  [call EXCEPT !.rejected = @ + 1,
               !.promise = IF call.promise = Pending THEN [t |-> "rejected", reason |-> e] ELSE @,
               !.outcome = IF call.promise = Pending THEN AfterRejected(call.api, e) ELSE @,
               !.callbacks = IF call.promise = Pending
                               THEN CallbacksAfterRejected(call.api, call.callback, e) ELSE @]

----------------------------------------------------------------------------
(* The pending-call table *)

\* this.completers[key] is truthy for an own entry
Has(table, key) == key \in DOMAIN table

\* this.completers[key] = { resolve, reject } of call c
Put(table, key, c) ==
  [k \in DOMAIN table \cup {key} |-> IF k = key THEN c ELSE table[k]]

\* a delete that leaves the entry in place
DeleteKeepsEntry(table, key) == table

\* delete this.completers[key]
Delete(table, key) ==
  [k \in DOMAIN table \ {key} |-> table[k]]

EmptyTable == [k \in {} |-> 0]

----------------------------------------------------------------------------
(* Call issue *)

\* getUniqueId(): '' + Math.floor(Math.random() * Number.MAX_SAFE_INTEGER)
getUniqueId == UniqueIds

\* an embedding check that always passes
isEmbeddedAlways == TRUE

\* isEmbeddedInIFrame(): window.parent !== window.self
isEmbeddedInIFrame == embedded

\* a call made while not embedded: the async function rejects at once
NotEmbeddedCall(api, method, params, callback) ==
  [api |-> api, method |-> method, params |-> params, id |-> Undefined,
   timer |-> "none", resolved |-> 0, rejected |-> 0,
   promise |-> [t |-> "rejected", reason |-> NotEmbeddedError],
   outcome |-> AfterRejected(api, NotEmbeddedError),
   callback |-> callback,
   callbacks |-> CallbacksAfterRejected(api, callback, NotEmbeddedError)]

\* a call registered by execute under id
PendingCall(api, method, params, id, callback) ==
  [api |-> api, method |-> method, params |-> params, id |-> id,
   timer |-> "armed", resolved |-> 0, rejected |-> 0,
   promise |-> Pending, outcome |-> Pending,
   callback |-> callback, callbacks |-> <<>>]

\* a payload that leaves the params out
JsonRpcRequestMessageWithoutParams(id, method, params) ==
  [jsonrpc |-> JSON_RPC_VERSION, id |-> id, method |-> method, params |-> <<>>]

\* the payload built by execute
JsonRpcRequestMessage(id, method, params) ==
  [jsonrpc |-> JSON_RPC_VERSION, id |-> id, method |-> method, params |-> params]

\* a send that posts the payload twice
postMessageTwice(log, payload, targetOrigin) ==
  Append(Append(log, [payload |-> payload, targetOrigin |-> targetOrigin]),
         [payload |-> payload, targetOrigin |-> targetOrigin])

\* window.parent.postMessage(payload, targetOrigin), as the parent's log of it
postMessage(log, payload, targetOrigin) ==
  Append(log, [payload |-> payload, targetOrigin |-> targetOrigin])

\* execute(method, params), reached from send or from sendAsync with its callback
execute(api, method, params, callback) ==
  /\ Len(calls) < MaxCalls
  /\ IF ~isEmbeddedInIFrame
       THEN /\ calls' = Append(calls, NotEmbeddedCall(api, method, params, callback))
            /\ UNCHANGED <<completers, sent>>
       ELSE \E id \in getUniqueId :
              /\ completers' = Put(completers, id, Len(calls) + 1)
              /\ sent' = postMessage(sent, JsonRpcRequestMessage(id, method, params),
                                     DEFAULT_TARGET_ORIGIN)
              /\ calls' = Append(calls, PendingCall(api, method, params, id, callback))
  /\ invoked' = <<>>
  /\ threw' = FALSE
  /\ UNCHANGED <<embedded, timeoutMilliseconds, listeners>>

\* send(method, params)
send(method, params) == execute("send", method, params, "none")

\* sendAsync({method, params}, callback), the callback returning or throwing
sendAsync(method, params, callback) == execute("sendAsync", method, params, callback)

----------------------------------------------------------------------------
(* Timeout *)

\* timeoutMilliseconds have passed since call c armed its timer, and every timer
\* armed before it (with the same delay) has run
TimerDue(c) ==
  /\ c \in 1 .. Len(calls)
  /\ calls[c].timer = "armed"
  /\ \A b \in 1 .. c - 1 : calls[b].timer # "armed"

\* a timeout callback that rejects and leaves the entry in the table
TimeoutCallbackKeepsEntry(c) ==
  /\ TimerDue(c)
  /\ LET id == calls[c].id IN
       IF Has(completers, id)
         THEN calls' = [calls EXCEPT
                          ![completers[id]] = Reject(@, TimeoutError(id, timeoutMilliseconds)),
                          ![c].timer = "fired"]
         ELSE calls' = [calls EXCEPT ![c].timer = "fired"]
  /\ invoked' = <<>>
  /\ threw' = FALSE
  /\ UNCHANGED <<embedded, timeoutMilliseconds, completers, sent, listeners>>

\* the callback execute handed to window.setTimeout for call c
TimeoutCallback(c) ==
  /\ TimerDue(c)
  /\ LET id == calls[c].id IN
       IF Has(completers, id)
         THEN /\ calls' = [calls EXCEPT
                             ![completers[id]] = Reject(@, TimeoutError(id, timeoutMilliseconds)),
                             ![c].timer = "fired"]
              /\ completers' = Delete(completers, id)
         ELSE /\ calls' = [calls EXCEPT ![c].timer = "fired"]
              /\ UNCHANGED completers
  /\ invoked' = <<>>
  /\ threw' = FALSE
  /\ UNCHANGED <<embedded, timeoutMilliseconds, sent, listeners>>

----------------------------------------------------------------------------
(* Event fan-out *)

\* params[i] of an inbound message (0-based), undefined past the end
ParamAt(m, i) == IF i + 1 <= Len(m.params) THEN m.params[i + 1] ELSE Undef

\* methods whose case reads message.params[0]
IndexedMethods == {"close", "chainChanged", "networkChanged", "accountsChanged"}

\* the arguments the switch on message.method passes to this.emit
EmitArgs(m) ==
  CASE m.method = "notification" ->
         <<IF m.hasParams THEN Arr(m.params) ELSE Undef>>
    [] m.method = "connect" -> <<>>
    [] m.method = "close" -> <<ParamAt(m, 0), ParamAt(m, 1)>>
    [] OTHER -> <<ParamAt(m, 0)>>

RECURSIVE EmitFrom(_, _, _, _)
\* EventEmitter.emit: call the listeners in order; a throwing listener ends the loop
EmitFrom(ls, i, event, args) ==
  IF i > Len(ls) THEN <<>>
  ELSE <<[fn |-> ls[i].fn, event |-> event, args |-> args]>>
         \o (IF ls[i].throws THEN <<>> ELSE EmitFrom(ls, i + 1, event, args))

\* the invocations made by this.emit(event, ...args)
Emit(event, args) == EmitFrom(listeners[event], 1, event, args)

\* some listener invoked by this.emit(event, ...) throws
EmitThrows(event) == \E i \in 1 .. Len(listeners[event]) : listeners[event][i].throws

\* the functions a subscriber can register: two that return, one that throws
ListenerFns ==
  { [fn |-> "f", throws |-> FALSE], [fn |-> "g", throws |-> FALSE],
    [fn |-> "h", throws |-> TRUE] }

\* the events subscribers register for
ListenEvents == {"accountsChanged", "connect"}

RECURSIVE Registered(_)
\* the number of registrations in the events es of the registry
Registered(es) ==
  IF es = {} THEN 0
  ELSE LET e == CHOOSE x \in es : TRUE IN Len(listeners[e]) + Registered(es \ {e})

\* EventEmitter.on(event, l): append l to the listeners of event
on(event, l) ==
  /\ Registered(EventNames) < MaxListeners
  /\ listeners' = [listeners EXCEPT ![event] = Append(@, l)]
  /\ invoked' = <<>>
  /\ threw' = FALSE
  /\ UNCHANGED <<embedded, timeoutMilliseconds, completers, calls, sent>>

\* EventEmitter.off(event, l): drop every registration of l for event
off(event, l) ==
  /\ listeners' = [listeners EXCEPT ![event] = SelectSeq(@, LAMBDA x : x # l)]
  /\ invoked' = <<>>
  /\ threw' = FALSE
  /\ UNCHANGED <<embedded, timeoutMilliseconds, completers, calls, sent>>

----------------------------------------------------------------------------
(* Inbound messages *)

\* early returns that forget the protocol version
SkippedIgnoresVersion(m) == m.data = "absent"

\* the two early returns of handleParentWindowMessage
Skipped(m) == m.data = "absent" \/ m.jsonrpc # JSON_RPC_VERSION

\* typeof message.id !== 'undefined' && message.id !== null
HasId(m) == m.id.t \notin {"undefined", "null"}

\* 'error' in message || 'result' in message
IsResponse(m) == m.hasError \/ m.hasResult

\* the message finds an own entry of the table
Matches(table, m) == ~Skipped(m) /\ HasId(m) /\ Has(table, KeyOf(m.id))

\* the lookup finds a property inherited from Object.prototype
MatchesInherited(table, m) ==
  ~Skipped(m) /\ HasId(m) /\ ~Has(table, KeyOf(m.id)) /\ KeyOf(m.id) \in PrototypeKeys

\* completer.resolve is not a function
ResolveThrows(table, m) == MatchesInherited(table, m) /\ IsResponse(m)

\* the switch on message.method is reached and names an event
Dispatches(table, m) ==
  ~Skipped(m) /\ ~ResolveThrows(table, m) /\ m.hasMethod /\ m.method \in EventNames

\* message.params[0] is read on an absent params
ParamsThrows(table, m) ==
  Dispatches(table, m) /\ m.method \in IndexedMethods /\ ~m.hasParams

\* a handler that never removes the entry it matched
TableAfterKeepsEntry(table, m) == table

\* the table after the message
TableAfter(table, m) ==
  IF Matches(table, m) THEN Delete(table, KeyOf(m.id)) ELSE table

\* a handler that completes some pending call, whatever identifier the message carries
CallsAfterResolvesAny(table, cs, m) ==
  IF ~Skipped(m) /\ HasId(m) /\ DOMAIN table # {} /\ IsResponse(m)
    THEN [cs EXCEPT ![table[CHOOSE k \in DOMAIN table : TRUE]] = Resolve(@, m)]
    ELSE cs

\* the calls after the message
CallsAfter(table, cs, m) ==
  IF Matches(table, m) /\ IsResponse(m)
    THEN [cs EXCEPT ![table[KeyOf(m.id)]] = Resolve(@, m)]
    ELSE cs

\* the listener invocations the message causes
InvokedAfter(table, m) ==
  IF Dispatches(table, m) /\ ~ParamsThrows(table, m)
    THEN Emit(m.method, EmitArgs(m))
    ELSE <<>>

\* the handler throws on the message
ThrewAfter(table, m) ==
  \/ ResolveThrows(table, m)
  \/ ParamsThrows(table, m)
  \/ (Dispatches(table, m) /\ EmitThrows(m.method))

\* a handler that empties the table when the message matches an entry
handleParentWindowMessageClearsTable(m) ==
  /\ calls' = CallsAfter(completers, calls, m)
  /\ completers' = IF Matches(completers, m) THEN EmptyTable ELSE completers
  /\ invoked' = InvokedAfter(completers, m)
  /\ threw' = ThrewAfter(completers, m)
  /\ UNCHANGED <<embedded, timeoutMilliseconds, sent, listeners>>

\* handleParentWindowMessage(event) with event.data = m
handleParentWindowMessage(m) ==
  /\ calls' = CallsAfter(completers, calls, m)
  /\ completers' = TableAfter(completers, m)
  /\ invoked' = InvokedAfter(completers, m)
  /\ threw' = ThrewAfter(completers, m)
  /\ UNCHANGED <<embedded, timeoutMilliseconds, sent, listeners>>

----------------------------------------------------------------------------
(* A transport that delivers from within postMessage *)

\* what a throwing handler throws (a TypeError, or what a listener threw)
HandlerError == [name |-> "TypeError", text |-> "thrown by the message handler"]

\* an execute that has not registered the call when it sends
TableAtSendUnregistered(table, id, c) == table

\* the table at the moment execute calls postMessage for call c: the executor of
\* the promise has already stored the completer under id
TableAtSend(table, id, c) == Put(table, id, c)

\* execute left by an exception of postMessage: no timer is armed and the
\* async function rejects with the exception
Thrown(call) ==
  [call EXCEPT !.timer = "none",
               !.promise = [t |-> "rejected", reason |-> HandlerError],
               !.outcome = AfterRejected(call.api, HandlerError),
               !.callbacks = CallbacksAfterRejected(call.api, call.callback, HandlerError)]

\* execute(method, params) with a transport whose postMessage hands m to the
\* message listener of the window before it returns
executeAnswered(api, method, params, callback, m) ==
  /\ Len(calls) < MaxCalls
  /\ isEmbeddedInIFrame
  /\ \E id \in getUniqueId :
       LET c == Len(calls) + 1
           table == TableAtSend(completers, id, c)
           cs == CallsAfter(table, Append(calls, PendingCall(api, method, params, id, callback)), m)
       IN /\ sent' = postMessage(sent, JsonRpcRequestMessage(id, method, params),
                                 DEFAULT_TARGET_ORIGIN)
          /\ completers' = TableAfter(table, m)
          /\ calls' = IF ThrewAfter(table, m) THEN [cs EXCEPT ![c] = Thrown(@)] ELSE cs
          /\ invoked' = InvokedAfter(table, m)
          /\ threw' = ThrewAfter(table, m)
  /\ UNCHANGED <<embedded, timeoutMilliseconds, listeners>>

----------------------------------------------------------------------------
(* Specification *)

\* the provider right after construction, listening for messages
Init ==
  /\ embedded \in BOOLEAN
  /\ timeoutMilliseconds = DEFAULT_TIMEOUT_MILLISECONDS
  /\ completers = EmptyTable
  /\ calls = <<>>
  /\ sent = <<>>
  /\ listeners = [e \in EventNames |-> <<>>]
  /\ invoked = <<>>
  /\ threw = FALSE

Send == \E method \in Methods, params \in ParamsSet : send(method, params)

SendAsync == \E method \in Methods, params \in ParamsSet : sendAsync(method, params, "returns")

Receive == \E m \in Messages : handleParentWindowMessage(m)

Timeout == \E c \in 1 .. MaxCalls : TimeoutCallback(c)

Next == Send \/ SendAsync \/ Receive \/ Timeout

Spec == Init /\ [][Next]_vars

\* every armed timer eventually runs its callback
FairSpec == Spec /\ WF_vars(Timeout)

\* the inputs of the single call of SpecFanout
Envelopes ==
  { [method |-> "eth_sign", params |-> <<"hello", "world">>],
    [method |-> "enable", params |-> <<>>] }
Callbacks == {"returns", "throws"}

\* the first call of the provider, through send
SendFirst ==
  /\ calls = <<>>
  /\ \E e \in Envelopes : send(e.method, e.params)

\* the first call of the provider, through sendAsync
SendAsyncFirst ==
  /\ calls = <<>>
  /\ \E e \in Envelopes, callback \in Callbacks : sendAsync(e.method, e.params, callback)

On == \E event \in ListenEvents, l \in ListenerFns : on(event, l)

Off == \E event \in ListenEvents, l \in ListenerFns : off(event, l)

NextFanout == SendFirst \/ SendAsyncFirst \/ On \/ Off \/ Receive \/ Timeout

\* a provider that makes one call, with any inputs, while subscribers come and go
SpecFanout == Init /\ [][NextFanout]_vars

\* the first call of the provider, through send or sendAsync, handed m from
\* within postMessage
SendAnsweredWith(m) ==
  /\ calls = <<>>
  /\ \E e \in Envelopes :
       \/ executeAnswered("send", e.method, e.params, "none", m)
       \/ \E callback \in Callbacks :
            executeAnswered("sendAsync", e.method, e.params, callback, m)

SendAnswered == \E m \in Messages : SendAnsweredWith(m)

NextReentrant == SendFirst \/ SendAsyncFirst \/ SendAnswered \/ Receive \/ Timeout

\* a provider that makes one call behind a transport that may deliver before
\* postMessage returns
SpecReentrant == Init /\ [][NextReentrant]_vars

----------------------------------------------------------------------------
(* Vocabulary of the properties *)

CallIds == 1 .. Len(calls)

\* call c was issued while embedded: execute registered it and armed its timer
IssuedEmbedded(c) == c \in CallIds /\ calls[c].timer # "none"

\* the promise of call c has settled
Completed(c) == c \in CallIds /\ calls[c].promise # Pending

\* the entry of call c is live in the table
Live(c) == Has(completers, calls[c].id) /\ completers[calls[c].id] = c

\* the caller of c received result r
ResolvedWith(call, r) ==
  \/ call.api = "send" /\ call.outcome = [t |-> "return", v |-> r]
  \/ /\ call.api = "sendAsync"
     /\ call.outcome.t = "callback"
     /\ call.outcome.error = Null
     /\ call.outcome.result.hasResult
     /\ call.outcome.result.result = r

\* the number of completer invocations per call is the same before and after the step
CallbacksUnchanged ==
  /\ Len(calls') = Len(calls)
  /\ \A c \in CallIds : /\ calls'[c].resolved = calls[c].resolved
                        /\ calls'[c].rejected = calls[c].rejected

----------------------------------------------------------------------------
(* C1 *)

\* C1: the completion callbacks of a call are invoked at most once in total:
\* never resolve and reject both, never resolve twice, never reject twice.
C1_AtMostOnce ==
  \A c \in CallIds : calls[c].resolved + calls[c].rejected <= 1

\* a call was resolved by a response and its timer has expired afterwards
C1_Witness ==
  \E c \in CallIds : calls[c].resolved = 1 /\ calls[c].timer = "fired"

----------------------------------------------------------------------------
(* C2 *)

\* C2: every call issued while embedded is eventually resolved or rejected,
\* given that its timer eventually fires.
C2_EveryCallTerminates ==
  \A c \in 1 .. MaxCalls : IssuedEmbedded(c) ~> Completed(c)

----------------------------------------------------------------------------
(* C3 *)

\* C3: a message of version 2.0 whose identifier matches a pending entry and
\* that has neither `result` nor `error` leaves the table and every call unchanged.
C3_MalformedResponseIgnored ==
  [][\A m \in Messages :
       (Matches(completers, m) /\ ~IsResponse(m) /\ handleParentWindowMessage(m))
         => (completers' = completers /\ calls' = calls)]_vars

----------------------------------------------------------------------------
(* C4 *)

\* C4: a call issued while embedded that is neither resolved nor rejected
\* still has its entry in the table.
C4_PendingHasEntry ==
  \A c \in CallIds : (IssuedEmbedded(c) /\ ~Completed(c)) => Live(c)

----------------------------------------------------------------------------
(* C5 *)

\* what C5 and its amended form conclude of a step that handled m for the call c
C5_Post(m, c) ==
  /\ ResolvedWith(calls'[c], m.result)
  /\ ~Has(completers', KeyOf(m.id))
  /\ CallsAfter(completers', calls', m) = calls'
  /\ TableAfter(completers', m) = completers'

\* C5 as stated: a message of version 2.0 with a `result` whose identifier
\* matches a pending call resolves the call with that result and removes the
\* identifier; the same message handled again changes nothing.
C5_ResultResolves ==
  [][(calls' # calls) =>
       \A m \in Messages :
         (Matches(completers, m) /\ m.hasResult /\ handleParentWindowMessage(m))
           => C5_Post(m, completers[KeyOf(m.id)])]_vars

\* C5 amended: the same, for a message that has a `result` and no `error`.
C5_ResultWithoutErrorResolves ==
  [][(calls' # calls) =>
       \A m \in Messages :
         (Matches(completers, m) /\ m.hasResult /\ ~m.hasError /\ handleParentWindowMessage(m))
           => C5_Post(m, completers[KeyOf(m.id)])]_vars

\* a call was resolved with a result and its identifier is gone from the table
C5_Witness ==
  \E c \in CallIds, r \in Results :
    /\ calls[c].resolved = 1
    /\ ResolvedWith(calls[c], r)
    /\ ~Has(completers, calls[c].id)

----------------------------------------------------------------------------
(* C6 *)

\* C6: a call whose timer has expired without any response having been routed
\* to it is rejected with the timeout error carrying its identifier and the
\* configured duration, and its identifier is out of the table.
C6_TimeoutRejects ==
  \A c \in CallIds :
    (IssuedEmbedded(c) /\ calls[c].timer = "fired" /\ calls[c].resolved = 0)
      => /\ calls[c].promise =
              [t |-> "rejected",
               reason |-> [name |-> "Error", text |-> "timed out",
                           id |-> calls[c].id, ms |-> timeoutMilliseconds]]
         /\ ~Live(c)

----------------------------------------------------------------------------
(* C7 *)

\* C7: the expiry of the timer of a call that a response has already completed
\* invokes no callback and removes no entry.
C7_LateExpiryIsNoOp ==
  [][\A c \in CallIds :
       (calls[c].resolved >= 1 /\ TimeoutCallback(c))
         => (completers' = completers /\ CallbacksUnchanged)]_vars

----------------------------------------------------------------------------
(* C8 *)

----------------------------------------------------------------------------
(* C9 *)

\* C9: while the context is not embedded, every call has failed at once with
\* the not-embedded error and nothing was sent or registered.
C9_NotEmbeddedFails ==
  ~embedded =>
    /\ sent = <<>>
    /\ completers = EmptyTable
    /\ \A c \in CallIds :
         /\ calls[c].promise = [t |-> "rejected", reason |-> NotEmbeddedError]
         /\ calls[c].api = "send" => calls[c].outcome = [t |-> "throw", e |-> NotEmbeddedError]
         /\ calls[c].api = "sendAsync" =>
              calls[c].outcome = [t |-> "callback", error |-> NotEmbeddedError, result |-> Null]

\* calls were made through both entry points while not embedded
C9_Witness ==
  /\ ~embedded
  /\ \E c, d \in CallIds : calls[c].api = "send" /\ calls[d].api = "sendAsync"

----------------------------------------------------------------------------
(* C10 *)

\* C10: registering a new call never overwrites a live entry: no two
\* outstanding calls share an identifier.
C10_FreshIdentifier ==
  \A c, d \in CallIds :
    (c # d /\ IssuedEmbedded(c) /\ IssuedEmbedded(d) /\ ~Completed(c) /\ ~Completed(d))
      => calls[c].id # calls[d].id

----------------------------------------------------------------------------
(* C11 *)

\* C11: handling an inbound message never throws, whatever the payload.
C11_HandlerNeverThrows == ~threw

----------------------------------------------------------------------------
(* C12 *)

\* C12: a message whose protocol version is not "2.0" is ignored even if its
\* identifier matches a pending call or its method names an event: the table and
\* the calls stay as they are and no listener is invoked.
C12_WrongVersionIgnored ==
  \A m \in Messages :
    (m.data # "absent" /\ m.jsonrpc # JSON_RPC_VERSION)
      => /\ TableAfter(completers, m) = completers
         /\ CallsAfter(completers, calls, m) = calls
         /\ InvokedAfter(completers, m) = <<>>

\* a call is pending and a listener is registered for an event, while messages of
\* another version carrying the identifier of that call and the name of that event arrive
C12_Witness ==
  \E m \in Messages :
    /\ m.data # "absent" /\ m.jsonrpc # JSON_RPC_VERSION
    /\ HasId(m) /\ Has(completers, KeyOf(m.id))
    /\ m.hasMethod /\ Len(listeners[m.method]) > 0

----------------------------------------------------------------------------
(* C13 *)

\* C13: handling a message changes no call but the one registered under the
\* identifier of the message, completes it with that message, and removes no
\* other entry of the table.
C13_ResolvedByOwnIdentifier ==
  [][(calls' # calls \/ completers' # completers) =>
       \A m \in Messages :
         handleParentWindowMessage(m) =>
           /\ \A c \in CallIds :
                calls'[c] # calls[c] =>
                  /\ HasId(m) /\ calls[c].id = KeyOf(m.id) /\ Live(c)
                  /\ calls'[c].promise = [t |-> "fulfilled", value |-> m]
           /\ \A k \in DOMAIN completers :
                IF k = KeyOf(m.id) THEN ~Has(completers', k)
                ELSE Has(completers', k) /\ completers'[k] = completers[k]]_vars

\* two outstanding calls with distinct identifiers, the later one answered first
C13_Witness ==
  \E c, d \in CallIds :
    /\ c < d /\ calls[c].id # calls[d].id
    /\ calls[d].resolved = 1
    /\ ~Completed(c) /\ Live(c)

----------------------------------------------------------------------------
(* C14 *)

\* the invocations that call every listener of event once, in registration order
EachListenerOnce(event, args) ==
  [i \in 1 .. Len(listeners[event]) |->
     [fn |-> listeners[event][i].fn, event |-> event, args |-> args]]

\* C14: a notification of version 2.0 with method "accountsChanged" and params
\* [accounts] invokes every listener registered for accountsChanged exactly once,
\* in registration order, with accounts, and no listener of another event.
C14_AccountsChangedFansOut ==
  \A m \in Messages :
    (~Skipped(m) /\ m.hasMethod /\ m.method = "accountsChanged" /\ m.hasParams)
      => InvokedAfter(completers, m) = EachListenerOnce("accountsChanged", <<m.params[1]>>)

----------------------------------------------------------------------------
(* C15 *)

\* C15: a message of version 2.0 that names an event has the event emitted
\* exactly once, whatever its identifier is; if the identifier matches a pending
\* entry, the message completes that call as well.
C15_DispatchIndependentOfMatch ==
  \A m \in Messages :
    (~Skipped(m) /\ m.hasMethod /\ m.method \in EventNames)
      => /\ InvokedAfter(completers, m) = EachListenerOnce(m.method, EmitArgs(m))
         /\ Matches(completers, m) =>
              CallsAfter(completers, calls, m)[completers[KeyOf(m.id)]].promise # Pending

----------------------------------------------------------------------------
(* C16 *)

\* C16: when a listener throws during an emission, every listener registered
\* after it is still invoked for that emission.
C16_ThrowingListenerIsolated ==
  \A m \in Messages :
    (Dispatches(completers, m) /\ ~ParamsThrows(completers, m))
      => \A i \in 1 .. Len(listeners[m.method]) :
           \E j \in 1 .. Len(InvokedAfter(completers, m)) :
             InvokedAfter(completers, m)[j].fn = listeners[m.method][i].fn

----------------------------------------------------------------------------
(* C17 *)

\* C17: the number of envelopes handed to the transport equals the number of
\* calls issued while embedded, after any sequence of calls, responses and timeouts.
C17_OneEnvelopePerCall ==
  Len(sent) = Cardinality({c \in CallIds : IssuedEmbedded(c)})

\* one call was rejected by its timeout and another answered with an error,
\* and two envelopes were sent
C17_Witness ==
  /\ Len(sent) = 2
  /\ \E c, d \in CallIds :
       /\ calls[c].rejected = 1
       /\ calls[d].resolved = 1 /\ calls[d].promise.value.hasError

----------------------------------------------------------------------------
(* C18 *)

\* C18: the envelope handed to the transport by a call carries version "2.0",
\* the method and the params given to the call, and the identifier under which
\* the entry of the call was registered.
C18_EnvelopeOfCall ==
  [][(Len(sent') > Len(sent)) =>
       \A e \in Envelopes :
         (\/ send(e.method, e.params)
          \/ \E callback \in Callbacks : sendAsync(e.method, e.params, callback))
           => LET p == sent'[Len(sent')].payload IN
                /\ Len(sent') = Len(sent) + 1
                /\ p.jsonrpc = "2.0"
                /\ p.method = e.method
                /\ p.params = e.params
                /\ Has(completers', p.id)
                /\ completers'[p.id] = Len(calls')]_vars

\* the envelope of send("eth_sign", ["hello", "world"]) was sent and its id is a key of the table
C18_Witness ==
  \E i \in 1 .. Len(sent) :
    /\ sent[i].payload.method = "eth_sign"
    /\ sent[i].payload.params = <<"hello", "world">>
    /\ Has(completers, sent[i].payload.id)

----------------------------------------------------------------------------
(* C19 *)

\* C19: a sendAsync call invokes its callback exactly once with the outcome of
\* the call, and on a response carrying a `result` the callback receives null
\* and the response envelope.
C19_CallbackExactlyOnce ==
  \A c \in CallIds :
    calls[c].api = "sendAsync" =>
      /\ Len(calls[c].callbacks) = (IF Completed(c) THEN 1 ELSE 0)
      /\ (calls[c].promise.t = "fulfilled" /\ calls[c].promise.value.hasResult)
           => calls[c].callbacks[1] = [error |-> Null, result |-> calls[c].promise.value]

----------------------------------------------------------------------------
(* C20 *)

\* C20: an error response {code, message} to a pending send call rejects it with
\* an RpcError whose code is error.code and whose reason is error.message.
C20_ReasonIsErrorMessage ==
  [][(calls' # calls) =>
       \A m \in Messages :
         (/\ Matches(completers, m)
          /\ m.hasError
          /\ m.error.message # Undefined
          /\ calls[completers[KeyOf(m.id)]].api = "send"
          /\ handleParentWindowMessage(m))
           => calls'[completers[KeyOf(m.id)]].outcome =
                [t |-> "throw",
                 e |-> [name |-> "RpcError", code |-> m.error.code,
                        reason |-> m.error.message]]]_vars

----------------------------------------------------------------------------
(* C21 *)

\* C21: every entry of the table belongs to a call whose timer has not fired
\* yet, so once every timer armed by the issued calls has fired the table is
\* empty, whatever calls were made and whatever messages arrived.
C21_TableEmptyAfterTimers ==
  /\ \A k \in DOMAIN completers : calls[completers[k]].timer = "armed"
  /\ (\A c \in CallIds : calls[c].timer # "armed") => completers = EmptyTable

\* two calls were registered, one was answered and the other timed out, and
\* both timers have fired
C21_Witness ==
  /\ \E c, d \in CallIds :
       /\ calls[c].resolved = 1
       /\ calls[d].rejected = 1 /\ calls[d].promise.t = "rejected"
  /\ \A c \in CallIds : calls[c].timer = "fired"

----------------------------------------------------------------------------
(* C22 *)

----------------------------------------------------------------------------
(* C23 *)

\* C23: an error response to a pending send call whose error object has a
\* `data` member rejects the call with an RpcError carrying the code, the reason
\* and that data.
C23_RpcErrorCarriesData ==
  [][(calls' # calls) =>
       \A m \in Messages :
         (/\ Matches(completers, m)
          /\ m.hasError
          /\ m.error.data # Undefined
          /\ calls[completers[KeyOf(m.id)]].api = "send"
          /\ handleParentWindowMessage(m))
           => calls'[completers[KeyOf(m.id)]].outcome =
                [t |-> "throw",
                 e |-> [name |-> "RpcError", code |-> m.error.code,
                        reason |-> m.error.reason, data |-> m.error.data]]]_vars

----------------------------------------------------------------------------
(* C24 *)

\* C24: the expiry of the timer of a call rejects no other call.
C24_TimerRejectsOwnCall ==
  [][\A c \in CallIds :
       TimeoutCallback(c)
         => \A d \in CallIds \ {c} : calls'[d].rejected = calls[d].rejected]_vars

----------------------------------------------------------------------------
(* C25 *)

\* C25: handling one message adds no entry to the table and removes at most the
\* entry whose key is the string form of the identifier of the message; a
\* message without identifier, with a null identifier, or with an identifier
\* that is no key of the table leaves the table and every call as they are.
C25_RemovesAtMostOwnEntry ==
  [][(calls' # calls \/ completers' # completers) =>
       \A m \in Messages :
         handleParentWindowMessage(m) =>
           /\ DOMAIN completers' \subseteq DOMAIN completers
           /\ \A k \in DOMAIN completers' : completers'[k] = completers[k]
           /\ \A k \in DOMAIN completers \ DOMAIN completers' :
                m.id.t \in {"number", "string"} /\ k = KeyOf(m.id)
           /\ (m.id.t \in {"undefined", "null"} \/ KeyOf(m.id) \notin DOMAIN completers)
                => (completers' = completers /\ calls' = calls)]_vars

\* of two registered calls, the entry of one was removed by a message that did
\* not complete it, and the entry of the other is still in the table
C25_Witness ==
  \E c, d \in CallIds :
    /\ calls[c].id # calls[d].id
    /\ IssuedEmbedded(c) /\ ~Completed(c) /\ ~Has(completers, calls[c].id)
    /\ calls[c].timer = "armed"
    /\ Live(d) /\ ~Completed(d)

----------------------------------------------------------------------------
(* C26 *)

\* C26: a response to a pending send call that carries both an `error` and a
\* `result` rejects the call with the RpcError of that error; the call does not
\* return the result.
C26_ErrorTakesPrecedence ==
  [][(calls' # calls) =>
       \A m \in Messages :
         (/\ Matches(completers, m)
          /\ m.hasError /\ m.hasResult
          /\ calls[completers[KeyOf(m.id)]].api = "send"
          /\ handleParentWindowMessage(m))
           => LET call == calls'[completers[KeyOf(m.id)]] IN
                /\ call.outcome.t = "throw"
                /\ call.outcome.e.name = "RpcError"
                /\ call.outcome.e.code = m.error.code
                /\ ~ResolvedWith(call, m.result)]_vars

\* a send call was answered by a response carrying an error and a result, and threw
C26_Witness ==
  \E c \in CallIds :
    /\ calls[c].api = "send"
    /\ calls[c].promise.t = "fulfilled"
    /\ calls[c].promise.value.hasError /\ calls[c].promise.value.hasResult
    /\ calls[c].outcome.t = "throw"

====
